---- MODULE Spec2Model ----
(***************************************************************************)
(* Build orchestration of the git-receive builder: build() of package      *)
(* gitreceive, its helpers buildBuilderPodNodeSelector and getProcFile,    *)
(* and controller.CheckAPICompat.  build() is a straight line of external  *)
(* calls with early returns and deferred cleanups; every external call is  *)
(* one action whose outcome is chosen by the environment.  Several         *)
(* build() executions run one after the other against the same object      *)
(* store, namespace and repository directory.                              *)
(***************************************************************************)
EXTENDS Naturals, Sequences, FiniteSets, TLC

VARIABLES
    conf,       \* operator configuration (Config), fixed for the process
    storage,    \* object store: key -> content tag
    secrets,    \* names of the secrets that exist in the build namespace
    podNames,   \* names of the pods that exist in the build namespace
    tmpDirs,    \* tmp* directories that exist under {repoDir}/build
    releases,   \* number of builds the controller accepted
    past,       \* finished executions of build(): app, sha, returned value
    run,        \* number of build() executions started
    pc,         \* position of the running build()
    req,        \* its request: app and rawGitSha
    loc,        \* its local variables
    defers,     \* the deferred calls it has registered, in order
    ret,        \* the value it returns
    trace,      \* the calls it has made, in order
    last,       \* the last call it made and the error that call returned
    cleaned,    \* the deferred calls it has run, in order, each with its error
    watcher,    \* the pod watcher's worker: "none", "running", "stopping", "stopped"
    logStream,  \* the log stream rc: "none", "open", "closed"
    pod,        \* the build pod it created: phase, container exit codes
    ticker,     \* the progress ticker of the publish: "none", "ticking", "quitting", "done"
    peer        \* another build() running in the same namespace: its app, its position

vars == <<conf, storage, secrets, podNames, tmpDirs, releases, past, run, pc,
          req, loc, defers, ret, trace, last, cleaned, watcher, logStream, pod,
          ticker, peer>>

env == <<storage, secrets, podNames, tmpDirs, releases>>

-----------------------------------------------------------------------------
(* Bounds *)

MaxBuilds == 2
MaxContainers == 2

Apps == {"foo"}
GoodSha == "abc1234500000000000000000000000000000000"
OldSha == "0ddba11000000000000000000000000000000000"
RawShas == {GoodSha, OldSha, "abc12345"}
ExitCodes == {0, 7}
StackNames == {"container", "heroku-18", "my-container-18"}

-----------------------------------------------------------------------------
(* Strings *)

\* strings.Contains
Contains(s, sub) ==
    \E i \in 1..(Len(s) + 1 - Len(sub)) : SubSeq(s, i, i + Len(sub) - 1) = sub

\* index of the first sep at or after i, or 0
RECURSIVE IndexFrom(_, _, _)
IndexFrom(s, sep, i) ==
    IF i > Len(s) THEN 0
    ELSE IF SubSeq(s, i, i) = sep THEN i
    ELSE IndexFrom(s, sep, i + 1)

\* strings.Split for a one-character separator
RECURSIVE Split(_, _)
Split(s, sep) ==
    LET k == IndexFrom(s, sep, 1)
    IN  IF k = 0 THEN <<s>>
        ELSE <<SubSeq(s, 1, k - 1)>> \o Split(SubSeq(s, k + 1, Len(s)), sep)

\* strings.TrimSpace
RECURSIVE TrimLeft(_)
TrimLeft(s) ==
    IF Len(s) > 0 /\ SubSeq(s, 1, 1) = " " THEN TrimLeft(SubSeq(s, 2, Len(s))) ELSE s

RECURSIVE TrimRight(_)
TrimRight(s) ==
    IF Len(s) > 0 /\ SubSeq(s, Len(s), Len(s)) = " "
    THEN TrimRight(SubSeq(s, 1, Len(s) - 1)) ELSE s

TrimSpace(s) == TrimRight(TrimLeft(s))

HexDigits == {"0", "1", "2", "3", "4", "5", "6", "7", "8", "9",
              "a", "b", "c", "d", "e", "f"}

-----------------------------------------------------------------------------
(* Pure helpers of build() *)

\* a check that hands every error back, the mismatch sentinel too
CheckAPICompatStrict(err) == err

\* controller.CheckAPICompat: the mismatch sentinel is downgraded to nil
CheckAPICompat(err) == IF err = "ErrAPIMismatch" THEN "nil" ELSE err

\* k8s.PullPolicyFromString
PullPolicyFromString(s) ==
    IF s \in {"Always", "IfNotPresent", "Never"} THEN "nil" ELSE "ConfigInvalid"

\* git.NewSha: a full 40-hex id
NewSha(raw) ==
    IF Len(raw) = 40 /\ \A i \in 1..Len(raw) : SubSeq(raw, i, i) \in HexDigits
    THEN "nil" ELSE "ConfigInvalid"

\* SHA.Short
Short(raw) == SubSeq(raw, 1, 8)

\* buildBuilderPodNodeSelector: the error it returns
NodeSelectorErr(config) ==
    IF config = "" THEN "nil"
    ELSE LET lines == Split(config, ",")
         IN  IF \E i \in 1..Len(lines) : Len(Split(lines[i], ":")) # 2
             THEN "ConfigInvalid" ELSE "nil"

\* buildBuilderPodNodeSelector: the selector it returns when there is no error
\* (a map: a key that is given twice keeps its last value)
NodeSelectorMap(config) ==
    IF config = "" THEN <<>>
    ELSE LET lines == Split(config, ",")
             key(i) == TrimSpace(Split(lines[i], ":")[1])
             val(i) == TrimSpace(Split(lines[i], ":")[2])
             lastOf(k) == CHOOSE i \in 1..Len(lines) :
                              /\ key(i) = k
                              /\ \A j \in 1..Len(lines) : key(j) = k => j <= i
         IN  [k \in {key(i) : i \in 1..Len(lines)} |-> val(lastOf(k))]

\* slugName of build()
SlugName(app, short) == app \o ":git-" \o short

\* SlugBuilderInfo keys
TarKey(app, short) == "home/" \o SlugName(app, short) \o "/tar"
PushKey(app, short) == "home/" \o SlugName(app, short) \o "/push"
AbsoluteSlugObjectKey(app, short) == PushKey(app, short) \o "/slug.tgz"
AbsoluteProcfileKey(app, short) == PushKey(app, short) \o "/Procfile"
CacheKey(app) == "home/" \o app \o "/cache"

dockerBuilderPodName(app, short) == "docker-" \o app \o "-" \o short
slugBuilderPodName(app, short) == "slug-" \o app \o "-" \o short
\* a secret name that does not depend on the app
EnvSecretNameShared(a) == "build-env"

\* envSecretName of build()
EnvSecretName(app) == app \o "-build-env"

-----------------------------------------------------------------------------
(* Configuration, initial state *)

\* Config as the operator's environment sets it
Configs ==
    {[DockerBuilderImagePullPolicy |-> "Always", SlugBuilderImagePullPolicy |-> "IfNotPresent",
      BuilderPodNodeSelector |-> "a:1, b:2", RegistryLocation |-> r] :
        r \in {"on-cluster", "off-cluster"}}
    \cup {[DockerBuilderImagePullPolicy |-> "always", SlugBuilderImagePullPolicy |-> "IfNotPresent",
           BuilderPodNodeSelector |-> "", RegistryLocation |-> "on-cluster"],
          [DockerBuilderImagePullPolicy |-> "Never", SlugBuilderImagePullPolicy |-> "",
           BuilderPodNodeSelector |-> "", RegistryLocation |-> "on-cluster"],
          [DockerBuilderImagePullPolicy |-> "Always", SlugBuilderImagePullPolicy |-> "Always",
           BuilderPodNodeSelector |-> "a:1,b", RegistryLocation |-> "on-cluster"]}

NoCall == [op |-> "", err |-> "nil"]
NoPeer == [app |-> "", at |-> "none"]
NoPod == [phase |-> "None", codes |-> <<>>, ran |-> FALSE]

\* the locals of build() before its first statement
InitLoc ==
    [tmpDir |-> 0, disableCaching |-> FALSE, stackName |-> "", image |-> "",
     buildPodName |-> "", podKind |-> "none", podCacheKey |-> "",
     procOnDisk |-> "absent", procRead |-> "none", procType |-> "none",
     published |-> FALSE, isContainer |-> FALSE, secretBefore |-> FALSE]

\* nothing has been built yet
Fresh == [storage |-> <<>>, secrets |-> {}, podNames |-> {}]

\* what an earlier slug build of OldSha has left: its tarball and its pod, the
\* builder's slug, Procfile and cache, and its env secret if deleting it failed
EarlierBuild(leak) ==
    [storage |-> (TarKey("foo", Short(OldSha)) :> "tar")
                 @@ (AbsoluteSlugObjectKey("foo", Short(OldSha)) :> "slug")
                 @@ (AbsoluteProcfileKey("foo", Short(OldSha)) :> "good")
                 @@ (CacheKey("foo") :> "cache"),
     secrets |-> IF leak THEN {EnvSecretName("foo")} ELSE {},
     podNames |-> {slugBuilderPodName("foo", Short(OldSha))}]

StartWith(e) ==
    /\ conf \in Configs
    /\ storage = e.storage
    /\ secrets = e.secrets
    /\ podNames = e.podNames
    /\ tmpDirs = {}
    /\ releases = 0
    /\ past = <<>>
    /\ run = 0
    /\ pc = "idle"
    /\ req = [app |-> "", rawGitSha |-> ""]
    /\ loc = InitLoc
    /\ defers = <<>>
    /\ ret = "none"
    /\ trace = <<>>
    /\ last = NoCall
    /\ cleaned = <<>>
    /\ watcher = "none"
    /\ logStream = "none"
    /\ pod = NoPod
    /\ ticker = "none"
    /\ peer = NoPeer

\* a push arrives in a namespace where earlier pushes may have been built
Init == \E e \in {Fresh, EarlierBuild(FALSE), EarlierBuild(TRUE)} : StartWith(e)

\* the first push ever
InitSeq == StartWith(Fresh)

-----------------------------------------------------------------------------
(* Calls, returns and deferred calls *)

app == req.app
short == Short(req.rawGitSha)

\* one call of build(), with the error it returned
Call(op, err) == trace' = Append(trace, op) /\ last' = [op |-> op, err |-> err]

Registered(d) == \E i \in 1..Len(defers) : defers[i] = d

\* the deferred calls in the order they run: last registered first
RunOrder == [i \in 1..Len(defers) |-> defers[Len(defers) + 1 - i]]

\* a return that runs no deferred call when build() fails
ReturnSkipsDefersOnError(v) ==
    \E rmErr \in {"nil", "CleanupError"}, delErr \in {"nil", "CleanupError"} :
        LET runs == v = "nil"
        IN  /\ ~(runs /\ Registered("RemoveTmpDir")) => rmErr = "nil"
            /\ ~(runs /\ Registered("DeleteSecret")) => delErr = "nil"
            /\ cleaned' = IF runs
                           THEN [i \in 1..Len(defers) |->
                                   [op |-> RunOrder[i],
                                    err |-> IF RunOrder[i] = "RemoveTmpDir" THEN rmErr
                                            ELSE IF RunOrder[i] = "DeleteSecret" THEN delErr
                                            ELSE "nil"]]
                           ELSE <<>>
            /\ tmpDirs' = IF runs /\ Registered("RemoveTmpDir") /\ rmErr = "nil"
                          THEN tmpDirs \ {loc.tmpDir} ELSE tmpDirs
            /\ secrets' = IF runs /\ Registered("DeleteSecret") /\ delErr = "nil"
                          THEN secrets \ {EnvSecretName(app)} ELSE secrets
            /\ watcher' = IF runs /\ Registered("CloseStopCh") THEN "stopping" ELSE watcher
            /\ logStream' = IF runs /\ Registered("CloseLogStream") THEN "closed"
                            ELSE logStream
            /\ defers' = defers
            /\ ret' = v
            /\ past' = Append(past, [app |-> app, rawGitSha |-> req.rawGitSha, ret |-> v])
            /\ pc' = "done"

\* a return that runs the deferred calls in the order they were registered
ReturnInRegistrationOrder(v) ==
    \E rmErr \in {"nil", "CleanupError"}, delErr \in {"nil", "CleanupError"} :
        /\ ~Registered("RemoveTmpDir") => rmErr = "nil"
        /\ ~Registered("DeleteSecret") => delErr = "nil"
        /\ cleaned' = [i \in 1..Len(defers) |->
                         [op |-> defers[i],
                          err |-> IF defers[i] = "RemoveTmpDir" THEN rmErr
                                  ELSE IF defers[i] = "DeleteSecret" THEN delErr
                                  ELSE "nil"]]
        /\ tmpDirs' = IF Registered("RemoveTmpDir") /\ rmErr = "nil"
                      THEN tmpDirs \ {loc.tmpDir} ELSE tmpDirs
        /\ secrets' = IF Registered("DeleteSecret") /\ delErr = "nil"
                      THEN secrets \ {EnvSecretName(app)} ELSE secrets
        /\ watcher' = IF Registered("CloseStopCh") THEN "stopping" ELSE watcher
        /\ logStream' = IF Registered("CloseLogStream") THEN "closed" ELSE logStream
        /\ defers' = defers
        /\ ret' = v
        /\ past' = Append(past, [app |-> app, rawGitSha |-> req.rawGitSha, ret |-> v])
        /\ pc' = "done"

\* a return statement of build(): the deferred calls run, last registered first;
\* os.RemoveAll and Secrets.Delete may fail, which is logged and dropped; then
\* build() hands v to its caller
Return(v) ==
    \E rmErr \in {"nil", "CleanupError"}, delErr \in {"nil", "CleanupError"} :
        /\ ~Registered("RemoveTmpDir") => rmErr = "nil"
        /\ ~Registered("DeleteSecret") => delErr = "nil"
        /\ cleaned' = [i \in 1..Len(defers) |->
                         [op |-> RunOrder[i],
                          err |-> IF RunOrder[i] = "RemoveTmpDir" THEN rmErr
                                  ELSE IF RunOrder[i] = "DeleteSecret" THEN delErr
                                  ELSE "nil"]]
        /\ tmpDirs' = IF Registered("RemoveTmpDir") /\ rmErr = "nil"
                      THEN tmpDirs \ {loc.tmpDir} ELSE tmpDirs
        /\ secrets' = IF Registered("DeleteSecret") /\ delErr = "nil"
                      THEN secrets \ {EnvSecretName(app)} ELSE secrets
        /\ watcher' = IF Registered("CloseStopCh") THEN "stopping" ELSE watcher
        /\ logStream' = IF Registered("CloseLogStream") THEN "closed" ELSE logStream
        /\ defers' = defers
        /\ ret' = v
        /\ past' = Append(past, [app |-> app, rawGitSha |-> req.rawGitSha, ret |-> v])
        /\ pc' = "done"

\* build() goes on to its next statement
Goto(next) ==
    /\ pc' = next
    /\ UNCHANGED <<ret, past, cleaned, defers, tmpDirs, secrets, watcher, logStream>>

\* build() registers the deferred call d and goes on
Defer(d, next) ==
    /\ pc' = next
    /\ defers' = Append(defers, d)
    /\ UNCHANGED <<ret, past, cleaned>>

-----------------------------------------------------------------------------
(* Steps of build() *)

\* build() is entered
Begin ==
    /\ run' = run + 1
    /\ \E a \in Apps, s \in RawShas : req' = [app |-> a, rawGitSha |-> s]
    /\ loc' = InitLoc
    /\ defers' = <<>>
    /\ ret' = "none"
    /\ trace' = <<>>
    /\ last' = NoCall
    /\ cleaned' = <<>>
    /\ watcher' = "none"
    /\ logStream' = "none"
    /\ pod' = NoPod
    /\ ticker' = "none"
    /\ pc' = "validate"
    /\ UNCHANGED <<conf, peer, env, past>>

\* the receive hook invokes build() for a push
StartBuild == pc = "idle" /\ Begin

\* the receive hook invokes build() for the next push
Rebuild == pc = "done" /\ run < MaxBuilds /\ Begin

\* the error of the pull-policy and SHA checks, in the order build() makes them
ValidateErr ==
    IF PullPolicyFromString(conf.DockerBuilderImagePullPolicy) # "nil"
    THEN PullPolicyFromString(conf.DockerBuilderImagePullPolicy)
    ELSE IF PullPolicyFromString(conf.SlugBuilderImagePullPolicy) # "nil"
    THEN PullPolicyFromString(conf.SlugBuilderImagePullPolicy)
    ELSE NewSha(req.rawGitSha)

Validate ==
    /\ pc = "validate"
    /\ Call("Validate", ValidateErr)
    /\ IF ValidateErr # "nil" THEN Return("err") ELSE Goto("prepareDir")
    /\ UNCHANGED <<conf, peer, ticker, storage, podNames, releases, run, req, loc, pod>>

\* os.MkdirAll(buildDir), ioutil.TempDir(buildDir, "tmp"), defer os.RemoveAll(tmpDir)
PrepareDir ==
    /\ pc = "prepareDir"
    /\ \E e \in {"nil", "MkdirAllFailed", "TempDirFailed"} :
        /\ Call("TempDir", e)
        /\ IF e = "nil"
           THEN /\ tmpDirs' = tmpDirs \cup {run}
                /\ loc' = [loc EXCEPT !.tmpDir = run]
                /\ Defer("RemoveTmpDir", "newClient")
                /\ UNCHANGED <<secrets, watcher, logStream>>
           ELSE /\ Return("err")
                /\ loc' = loc
    /\ UNCHANGED <<conf, peer, ticker, storage, podNames, releases, run, req, pod>>

\* controller.New
NewClient ==
    /\ pc = "newClient"
    /\ \E e \in {"nil", "BuilderKeyError"} :
        /\ Call("NewClient", e)
        /\ IF e = "nil" THEN Goto("getAppConfig") ELSE Return("err")
    /\ UNCHANGED <<conf, peer, ticker, storage, podNames, releases, run, req, loc, pod>>

\* hooks.GetAppConfig, CheckAPICompat, NewSlugBuilderInfo
GetAppConfig ==
    /\ pc = "getAppConfig"
    /\ \E e \in {"nil", "ErrAPIMismatch", "ControllerError"}, disable \in BOOLEAN :
        /\ Call("GetAppConfig", e)
        /\ IF CheckAPICompat(e) # "nil"
           THEN /\ disable = FALSE
                /\ Return("err")
                /\ loc' = loc
           ELSE /\ loc' = [loc EXCEPT !.disableCaching = disable]
                /\ Goto(IF disable THEN "statCache" ELSE "gitArchive")
    /\ UNCHANGED <<conf, peer, ticker, storage, podNames, releases, run, req, pod>>

\* storageDriver.Stat(cacheKey): any error skips the delete
StatCache ==
    /\ pc = "statCache"
    /\ \E e \in IF CacheKey(app) \in DOMAIN storage
                THEN {"nil", "StorageUnavailable"}
                ELSE {"PathNotFound", "StorageUnavailable"} :
        /\ Call("Stat", e)
        /\ Goto(IF e = "nil" THEN "deleteCache" ELSE "gitArchive")
    /\ UNCHANGED <<conf, peer, ticker, storage, podNames, releases, run, req, loc, pod>>

\* storageDriver.Delete(cacheKey)
DeleteCache ==
    /\ pc = "deleteCache"
    /\ \E e \in {"nil", "StorageUnavailable"} :
        /\ Call("Delete", e)
        /\ IF e = "nil"
           THEN /\ storage' = [k \in DOMAIN storage \ {CacheKey(app)} |-> storage[k]]
                /\ Goto("gitArchive")
           ELSE /\ Return("err")
                /\ storage' = storage
    /\ UNCHANGED <<conf, peer, ticker, podNames, releases, run, req, loc, pod>>

\* git archive --format=tar.gz --output={app}.tar.gz {short}
GitArchive ==
    /\ pc = "gitArchive"
    /\ \E e \in {"nil", "GitArchiveFailed"} :
        /\ Call("GitArchive", e)
        /\ IF e = "nil" THEN Goto("untar") ELSE Return("err")
    /\ UNCHANGED <<conf, peer, ticker, storage, podNames, releases, run, req, loc, pod>>

\* tar -xzf {app}.tar.gz -C {tmpDir}/
Untar ==
    /\ pc = "untar"
    /\ \E e \in {"nil", "TarFailed"} :
        /\ Call("Untar", e)
        /\ IF e = "nil" THEN Goto("readTgz") ELSE Return("err")
    /\ UNCHANGED <<conf, peer, ticker, storage, podNames, releases, run, req, loc, pod>>

\* getStack(tmpDir, appConf), ioutil.ReadFile(absAppTgz)
ReadTgz ==
    /\ pc = "readTgz"
    /\ \E st \in StackNames, e \in {"nil", "ReadFailed"} :
        /\ Call("ReadFile", e)
        /\ loc' = [loc EXCEPT !.stackName = st]
        /\ IF e = "nil" THEN Goto("putContent") ELSE Return("err")
    /\ UNCHANGED <<conf, peer, ticker, storage, podNames, releases, run, req, pod>>

\* an upload whose error is dropped
PutContentErrorDropped ==
    /\ pc = "putContent"
    /\ \E e \in {"nil", "StorageUnavailable"} :
        /\ Call("PutContent", e)
        /\ storage' = IF e = "nil" THEN (TarKey(app, short) :> "tar") @@ storage
                       ELSE storage
        /\ Goto("nodeSelector")
    /\ UNCHANGED <<conf, peer, ticker, podNames, releases, run, req, loc, pod>>

\* storageDriver.PutContent(tarKey, appTgzdata)
PutContent ==
    /\ pc = "putContent"
    /\ \E e \in {"nil", "StorageUnavailable"} :
        /\ Call("PutContent", e)
        /\ IF e = "nil"
           THEN /\ storage' = (TarKey(app, short) :> "tar") @@ storage
                /\ Goto("nodeSelector")
           ELSE /\ Return("err")
                /\ storage' = storage
    /\ UNCHANGED <<conf, peer, ticker, podNames, releases, run, req, loc, pod>>

\* the builder-kind test of build(): strings.Contains(stack["name"], "container")
UsesDockerBuilder(stackName) == Contains(stackName, "container")

\* buildBuilderPodNodeSelector, image := appName, and the choice of the builder pod
NodeSelector ==
    /\ pc = "nodeSelector"
    /\ Call("NodeSelector", NodeSelectorErr(conf.BuilderPodNodeSelector))
    /\ IF NodeSelectorErr(conf.BuilderPodNodeSelector) # "nil"
       THEN /\ Return("err")
            /\ loc' = loc
       ELSE IF UsesDockerBuilder(loc.stackName)
       THEN /\ loc' = [loc EXCEPT !.image = app, !.podKind = "docker",
                                  !.buildPodName = dockerBuilderPodName(app, short)]
            /\ Goto(IF conf.RegistryLocation # "on-cluster"
                    THEN "registryDetails" ELSE "createPod")
       ELSE /\ loc' = [loc EXCEPT !.image = app, !.podKind = "slug",
                                  !.buildPodName = slugBuilderPodName(app, short),
                                  !.podCacheKey = IF loc.disableCaching THEN ""
                                                  ELSE CacheKey(app)]
            /\ Goto("envSecret")
    /\ UNCHANGED <<conf, peer, ticker, storage, podNames, releases, run, req, pod>>

\* registry hosts the registry secret may name; "" is a secret without hostname
RegistryHosts == {"", "quay.io/"}

\* getRegistryDetails: the image with the hostname of the registry secret before it
getRegistryDetails(image, host) == host \o image

\* getRegistryDetails(&image, ...), then image = image + ":git-" + short
RegistryDetails ==
    /\ pc = "registryDetails"
    /\ \E e \in {"nil", "SecretError"}, host \in RegistryHosts :
        /\ Call("RegistryDetails", e)
        /\ IF e = "nil"
           THEN /\ loc' = [loc EXCEPT !.image = getRegistryDetails(loc.image, host)
                                                \o ":git-" \o short]
                /\ Goto("createPod")
           ELSE /\ host = ""
                /\ Return("err")
                /\ loc' = loc
    /\ UNCHANGED <<conf, peer, ticker, storage, podNames, releases, run, req, pod>>

\* createAppEnvConfigSecret: the secret is created, or updated when it exists
createAppEnvConfigSecret(existing, name, e) ==
    IF e = "nil" THEN existing \cup {name} ELSE existing

\* the secret is created and its deletion is not deferred
CreateEnvSecretNoDefer ==
    /\ pc = "envSecret"
    /\ \E e \in {"nil", "SecretError"} :
        /\ Call("CreateSecret", e)
        /\ loc' = [loc EXCEPT !.secretBefore = EnvSecretName(app) \in secrets]
        /\ IF e = "nil"
           THEN /\ secrets' = createAppEnvConfigSecret(secrets, EnvSecretName(app), e)
                /\ Goto("createPod")
           ELSE Return("err")
    /\ UNCHANGED <<conf, peer, ticker, storage, podNames, releases, run, req, pod>>

\* createAppEnvConfigSecret (create, or update when it exists), defer Secrets.Delete
CreateEnvSecret ==
    /\ pc = "envSecret"
    /\ \E e \in {"nil", "SecretError"} :
        /\ Call("CreateSecret", e)
        /\ loc' = [loc EXCEPT !.secretBefore = EnvSecretName(app) \in secrets]
        /\ IF e = "nil"
           THEN /\ secrets' = createAppEnvConfigSecret(secrets, EnvSecretName(app), e)
                /\ Defer("DeleteSecret", "createPod")
                /\ UNCHANGED <<tmpDirs, watcher, logStream>>
           ELSE Return("err")
    /\ UNCHANGED <<conf, peer, ticker, storage, podNames, releases, run, req, pod>>

\* the pod is created and the worker started, closing stopCh is not deferred
CreatePodNoDeferClose ==
    /\ pc = "createPod"
    /\ \E e \in IF loc.buildPodName \in podNames THEN {"AlreadyExists"}
                ELSE {"nil", "ApiError"} :
        /\ Call("PodCreate", e)
        /\ IF e = "nil"
           THEN /\ podNames' = podNames \cup {loc.buildPodName}
                /\ pod' = [phase |-> "Pending", codes |-> <<>>, ran |-> FALSE]
                /\ watcher' = "running"
                /\ pc' = "waitForPod"
                /\ UNCHANGED <<ret, past, cleaned, defers, tmpDirs, secrets, logStream>>
           ELSE /\ Return("err")
                /\ UNCHANGED <<podNames, pod>>
    /\ UNCHANGED <<conf, peer, ticker, storage, releases, run, req, loc>>

\* podsInterface.Create, NewPodWatcher, defer close(stopCh), go pw.Controller.Run(stopCh)
CreatePod ==
    /\ pc = "createPod"
    /\ \E e \in IF loc.buildPodName \in podNames THEN {"AlreadyExists"}
                ELSE {"nil", "ApiError"} :
        /\ Call("PodCreate", e)
        /\ IF e = "nil"
           THEN /\ podNames' = podNames \cup {loc.buildPodName}
                /\ pod' = [phase |-> "Pending", codes |-> <<>>, ran |-> FALSE]
                /\ watcher' = "running"
                /\ Defer("CloseStopCh", "waitForPod")
                /\ UNCHANGED <<tmpDirs, secrets, logStream>>
           ELSE /\ Return("err")
                /\ UNCHANGED <<podNames, pod>>
    /\ UNCHANGED <<conf, peer, ticker, storage, releases, run, req, loc>>

-----------------------------------------------------------------------------
(* The build pod, run by the cluster *)

RECURSIVE SeqsUpTo(_, _)
SeqsUpTo(S, n) ==
    IF n = 0 THEN {<<>>}
    ELSE SeqsUpTo(S, n - 1) \cup
         {Append(q, x) : q \in {r \in SeqsUpTo(S, n - 1) : Len(r) = n - 1}, x \in S}

\* container exit codes of a pod that ended in the given phase
TerminalCodes(phase) ==
    IF phase = "Succeeded"
    THEN {q \in SeqsUpTo(ExitCodes, MaxContainers) :
             Len(q) > 0 /\ \A i \in 1..Len(q) : q[i] = 0}
    ELSE {q \in SeqsUpTo(ExitCodes, MaxContainers) :
             Len(q) = 0 \/ \E i \in 1..Len(q) : q[i] # 0}

\* what a slug builder that succeeded has written to the object store
BuilderOutput(pf) ==
    (AbsoluteSlugObjectKey(app, short) :> "slug")
    @@ (IF pf = "absent" THEN <<>> ELSE (AbsoluteProcfileKey(app, short) :> pf))
    @@ (IF loc.podCacheKey = "" THEN <<>> ELSE (loc.podCacheKey :> "cache"))

PodRuns ==
    /\ pc \in {"waitForPod", "logStream", "copyLogs", "waitForPodEnd"}
    /\ pod.phase = "Pending"
    /\ pod' = [pod EXCEPT !.phase = "Running", !.ran = TRUE]
    /\ UNCHANGED <<conf, peer, ticker, env, past, run, pc, req, loc, defers, ret, trace, last, cleaned,
                   watcher, logStream>>

PodEnds ==
    /\ pc \in {"waitForPod", "logStream", "copyLogs", "waitForPodEnd"}
    /\ pod.phase \in {"Pending", "Running"}
    /\ \E ph \in {"Succeeded", "Failed"}, pf \in {"absent", "good", "bad"} :
        \E codes \in TerminalCodes(ph) :
            /\ pod' = [pod EXCEPT !.phase = ph, !.codes = codes]
            /\ IF ph = "Succeeded" /\ loc.podKind = "slug"
               THEN storage' = BuilderOutput(pf) @@ storage
               ELSE pf = "absent" /\ storage' = storage
    /\ UNCHANGED <<conf, peer, ticker, secrets, podNames, tmpDirs, releases, past, run, pc, req, loc,
                   defers, ret, trace, last, cleaned, watcher, logStream>>

-----------------------------------------------------------------------------
(* Waiting for the pod, its logs and its exit codes *)

\* the phases at which waitForPod resolves
StartedPhases == {"Running", "Succeeded", "Failed"}

\* waitForPod: resolves once the pod is Running or has ended, or times out
waitForPod(phase) == IF phase \in StartedPhases THEN {"nil"} ELSE {"Timeout"}

\* waitForPodEnd: resolves once the pod is Succeeded or Failed, or times out
waitForPodEnd(phase) == IF phase \in {"Succeeded", "Failed"} THEN {"nil"} ELSE {"Timeout"}

\* a wait whose error is dropped
WaitForPodErrorDropped ==
    /\ pc = "waitForPod"
    /\ \E e \in waitForPod(pod.phase) :
        /\ Call("WaitForPod", e)
        /\ Goto("logStream")
    /\ UNCHANGED <<conf, peer, ticker, storage, podNames, releases, run, req, loc, pod>>

\* waitForPod(pw, ns, name, tick, timeout) and its error check
WaitForPod ==
    /\ pc = "waitForPod"
    /\ \E e \in waitForPod(pod.phase) :
        /\ Call("WaitForPod", e)
        /\ IF e = "nil" THEN Goto("logStream") ELSE Return("err")
    /\ UNCHANGED <<conf, peer, ticker, storage, podNames, releases, run, req, loc, pod>>

\* req.Stream of the pod's log with Follow, defer rc.Close()
OpenLogStream ==
    /\ pc = "logStream"
    /\ \E e \in {"nil", "StreamError"} :
        /\ Call("LogStream", e)
        /\ IF e = "nil"
           THEN /\ logStream' = "open"
                /\ Defer("CloseLogStream", "copyLogs")
                /\ UNCHANGED <<tmpDirs, secrets, watcher>>
           ELSE Return("err")
    /\ UNCHANGED <<conf, peer, ticker, storage, podNames, releases, run, req, loc, pod>>

\* io.Copy(os.Stdout, rc)
CopyLogs ==
    /\ pc = "copyLogs"
    /\ \E e \in {"nil", "CopyError"} :
        /\ Call("CopyLogs", e)
        /\ IF e = "nil" THEN Goto("waitForPodEnd") ELSE Return("err")
    /\ UNCHANGED <<conf, peer, ticker, storage, podNames, releases, run, req, loc, pod>>

\* waitForPodEnd(pw, ns, name, tick, timeout) and its error check
WaitForPodEnd ==
    /\ pc = "waitForPodEnd"
    /\ \E e \in waitForPodEnd(pod.phase) :
        /\ Call("WaitForPodEnd", e)
        /\ IF e = "nil" THEN Goto("getPod") ELSE Return("err")
    /\ UNCHANGED <<conf, peer, ticker, storage, podNames, releases, run, req, loc, pod>>

\* a loop that looks at the first container status only
FirstStatusOnly(codes) == IF codes = <<>> THEN 0 ELSE Head(codes)

\* the loop over buildPod.Status.ContainerStatuses: the first exit code that is not 0
RECURSIVE FirstNonZero(_)
FirstNonZero(codes) ==
    IF codes = <<>> THEN 0
    ELSE IF Head(codes) # 0 THEN Head(codes)
    ELSE FirstNonZero(Tail(codes))

\* Pods.Get of the build pod and the exit-code loop
CheckExitCodes ==
    /\ pc = "getPod"
    /\ \E e \in {"nil", "ApiError"} :
        IF e # "nil"
        THEN /\ Call("GetPod", e)
             /\ Return("err")
        ELSE /\ trace' = trace \o <<"GetPod", "ExitCodes">>
             /\ IF FirstNonZero(pod.codes) # 0
                THEN /\ last' = [op |-> "ExitCodes", err |-> "BuilderFailed"]
                     /\ Return("err")
                ELSE /\ last' = [op |-> "ExitCodes", err |-> "nil"]
                     /\ Goto("procFile")
    /\ UNCHANGED <<conf, peer, ticker, storage, podNames, releases, run, req, loc, pod>>

\* a resolution that reads the object store for every stack
getProcFileNoContainerCase(onDisk, stackName, obj, io) ==
    IF onDisk # "absent"
    THEN IF io # "nil" THEN [procType |-> "none", err |-> "ReadError", read |-> "disk"]
         ELSE IF onDisk = "bad"
         THEN [procType |-> "none", err |-> "ProcfileInvalid", read |-> "disk"]
         ELSE [procType |-> "disk", err |-> "nil", read |-> "disk"]
    ELSE IF io # "nil" \/ obj = "missing"
    THEN [procType |-> "none", err |-> "ReadError", read |-> "storage"]
    ELSE IF obj = "bad"
    THEN [procType |-> "none", err |-> "ProcfileInvalid", read |-> "storage"]
    ELSE [procType |-> "storage", err |-> "nil", read |-> "storage"]

\* getProcFile: onDisk is {tmpDir}/Procfile, obj the object at procfileKey
\* ("missing" when there is none), io the error of the read it makes
getProcFile(onDisk, stackName, obj, io) ==
    IF onDisk # "absent"
    THEN IF io # "nil" THEN [procType |-> "none", err |-> "ReadError", read |-> "disk"]
         ELSE IF onDisk = "bad"
         THEN [procType |-> "none", err |-> "ProcfileInvalid", read |-> "disk"]
         ELSE [procType |-> "disk", err |-> "nil", read |-> "disk"]
    ELSE IF stackName = "container"
    THEN [procType |-> "empty", err |-> "nil", read |-> "none"]
    ELSE IF io # "nil" \/ obj = "missing"
    THEN [procType |-> "none", err |-> "ReadError", read |-> "storage"]
    ELSE IF obj = "bad"
    THEN [procType |-> "none", err |-> "ProcfileInvalid", read |-> "storage"]
    ELSE [procType |-> "storage", err |-> "nil", read |-> "storage"]

ProcfileObject ==
    IF AbsoluteProcfileKey(app, short) \in DOMAIN storage
    THEN storage[AbsoluteProcfileKey(app, short)] ELSE "missing"

\* getProcFile(storageDriver, tmpDir, procfileKey, stack); the pushed tree, unpacked
\* into tmpDir, holds a well-formed Procfile, a malformed one or none
ResolveProcfile ==
    /\ pc = "procFile"
    /\ \E io \in {"nil", "IOError"}, onDisk \in {"absent", "good", "bad"} :
        LET r == getProcFile(onDisk, loc.stackName, ProcfileObject, io)
        IN  /\ r.read = "none" => io = "nil"
            /\ Call("GetProcFile", r.err)
            /\ loc' = [loc EXCEPT !.procOnDisk = onDisk, !.procRead = r.read,
                                  !.procType = r.procType]
            /\ IF r.err # "nil" THEN Return("err") ELSE Goto("createBuild")
    /\ UNCHANGED <<conf, peer, ticker, storage, podNames, releases, run, req, pod>>

\* the image build() hands to hooks.CreateBuild
PublishedImage ==
    IF loc.stackName # "container" THEN AbsoluteSlugObjectKey(app, short) ELSE loc.image

\* a publish whose error is returned before the ticker is told to quit
CreateBuildChecksBeforeQuit ==
    /\ pc = "createBuild"
    /\ \E e \in {"nil", "ErrAPIMismatch", "ControllerError"} :
        /\ Call("CreateBuild", e)
        /\ loc' = [loc EXCEPT !.image = PublishedImage,
                              !.isContainer = (loc.stackName = "container"),
                              !.published = (e \in {"nil", "ErrAPIMismatch"})]
        /\ releases' = IF e \in {"nil", "ErrAPIMismatch"} THEN releases + 1 ELSE releases
        /\ IF CheckAPICompat(e) # "nil" THEN Return("err") ELSE Goto("quitSend")
    /\ ticker' = "ticking"
    /\ UNCHANGED <<conf, peer, storage, podNames, run, req, pod>>

\* quit := progress(...), which starts the ticker; hooks.CreateBuild
CreateBuild ==
    /\ pc = "createBuild"
    /\ \E e \in {"nil", "ErrAPIMismatch", "ControllerError"} :
        /\ Call("CreateBuild", e)
        /\ loc' = [loc EXCEPT !.image = PublishedImage,
                              !.isContainer = (loc.stackName = "container"),
                              !.published = (e \in {"nil", "ErrAPIMismatch"})]
        /\ releases' = IF e \in {"nil", "ErrAPIMismatch"} THEN releases + 1 ELSE releases
    /\ ticker' = "ticking"
    /\ Goto("quitSend")
    /\ UNCHANGED <<conf, peer, storage, podNames, run, req, pod>>

\* quit <- true: the send completes when the ticker takes the value
QuitSend ==
    /\ pc = "quitSend"
    /\ ticker = "ticking"
    /\ ticker' = "quitting"
    /\ Goto("quitRecv")
    /\ UNCHANGED <<conf, peer, storage, podNames, releases, run, req, loc, pod, trace, last>>

\* the ticker, told to quit, acknowledges on the quit channel and ends
TickerAcks ==
    /\ ticker = "quitting"
    /\ ticker' = "done"
    /\ UNCHANGED <<conf, peer, env, past, run, pc, req, loc, defers, ret, trace, last,
                   cleaned, watcher, logStream, pod>>

\* <-quit, then CheckAPICompat of the error hooks.CreateBuild returned
QuitRecv ==
    /\ pc = "quitRecv"
    /\ ticker = "done"
    /\ IF CheckAPICompat(last.err) # "nil" THEN Return("err") ELSE Goto("gitGc")
    /\ UNCHANGED <<conf, peer, ticker, storage, podNames, releases, run, req, loc, pod,
                   trace, last>>

\* the watcher's worker, its stop channel closed, stops
WatcherStops ==
    /\ watcher = "stopping"
    /\ watcher' = "stopped"
    /\ UNCHANGED <<conf, peer, ticker, env, past, run, pc, req, loc, defers, ret, trace,
                   last, cleaned, logStream, pod>>

\* a git gc whose error fails the build
GitGcErrorReturned ==
    /\ pc = "gitGc"
    /\ \E e \in {"nil", "GcFailed"} :
        /\ Call("GitGc", e)
        /\ Return(IF e = "nil" THEN "nil" ELSE "err")
    /\ UNCHANGED <<conf, peer, ticker, storage, podNames, releases, run, req, loc, pod>>

\* run(git gc), its error dropped, then return nil
GitGc ==
    /\ pc = "gitGc"
    /\ \E e \in {"nil", "GcFailed"} : Call("GitGc", e)
    /\ Return("nil")
    /\ UNCHANGED <<conf, peer, ticker, storage, podNames, releases, run, req, loc, pod>>

Next ==
    \/ StartBuild \/ Validate \/ PrepareDir \/ NewClient \/ GetAppConfig
    \/ StatCache \/ DeleteCache \/ GitArchive \/ Untar \/ ReadTgz \/ PutContent
    \/ NodeSelector \/ RegistryDetails \/ CreateEnvSecret \/ CreatePod
    \/ PodRuns \/ PodEnds
    \/ WaitForPod \/ OpenLogStream \/ CopyLogs \/ WaitForPodEnd \/ CheckExitCodes
    \/ ResolveProcfile \/ CreateBuild \/ QuitSend \/ TickerAcks \/ QuitRecv \/ GitGc
    \/ WatcherStops

Spec == Init /\ [][Next]_vars

\* pushes built one after the other, the first in a fresh namespace
NextSeq == Next \/ Rebuild

SpecSeq == InitSeq /\ [][NextSeq]_vars

\* a second build(), on another worker thread of the same process, of a push of
\* OldSha to one of PeerApps; it takes the slug-builder branch. Of its steps
\* those that act on the secrets and pods of the namespace are kept.
PeerApps == {"foo", "bar"}

PeerStays == UNCHANGED <<conf, storage, tmpDirs, releases, past, run, pc, req, loc, defers,
                         ret, trace, last, cleaned, watcher, logStream, pod, ticker>>

\* createAppEnvConfigSecret and defer Secrets.Delete, in the other build
PeerCreatesSecret ==
    /\ peer.at = "none"
    /\ \E a \in PeerApps :
        /\ peer' = [app |-> a, at |-> "secret"]
        /\ secrets' = createAppEnvConfigSecret(secrets, EnvSecretName(a), "nil")
    /\ UNCHANGED podNames
    /\ PeerStays

\* podsInterface.Create, in the other build
PeerCreatesPod ==
    /\ peer.at = "secret"
    /\ slugBuilderPodName(peer.app, Short(OldSha)) \notin podNames
    /\ podNames' = podNames \cup {slugBuilderPodName(peer.app, Short(OldSha))}
    /\ peer' = [peer EXCEPT !.at = "pod"]
    /\ UNCHANGED secrets
    /\ PeerStays

\* the other build's pod ends
PeerPodEnds ==
    /\ peer.at = "pod"
    /\ peer' = [peer EXCEPT !.at = "ended"]
    /\ UNCHANGED <<secrets, podNames>>
    /\ PeerStays

\* the other build returns, after its pod ended or on an error before that: its
\* deferred Secrets.Delete runs
PeerReturns ==
    /\ peer.at \in {"secret", "pod", "ended"}
    /\ \E delErr \in {"nil", "CleanupError"} :
        secrets' = IF delErr = "nil" THEN secrets \ {EnvSecretName(peer.app)} ELSE secrets
    /\ peer' = [peer EXCEPT !.at = "done"]
    /\ UNCHANGED podNames
    /\ PeerStays

NextPar == Next \/ PeerCreatesSecret \/ PeerCreatesPod \/ PeerPodEnds \/ PeerReturns

\* two pushes arrive at the same time, the first ones or after an earlier build
InitPar == \E e \in {Fresh, EarlierBuild(FALSE)} : StartWith(e)

SpecPar == InitPar /\ [][NextPar]_vars

\* every call of build() returns or times out, and the workers it started are
\* scheduled: a step that can be taken is eventually taken
SpecFair == Init /\ [][Next]_vars /\ WF_vars(Next)

-----------------------------------------------------------------------------
(* Properties *)

\* the place of the first call of op in the trace, 0 when it was not made
RECURSIVE PosFrom(_, _)
PosFrom(op, i) ==
    IF i > Len(trace) THEN 0
    ELSE IF trace[i] = op THEN i
    ELSE PosFrom(op, i + 1)

Pos(op) == PosFrom(op, 1)
Called(op) == Pos(op) # 0
Times(op) == Cardinality({i \in 1..Len(trace) : trace[i] = op})

\* op was called and returned no error: a call that fails is the last one made
Succeeded(op) == Called(op) /\ (Pos(op) < Len(trace) \/ last.err = "nil")

Returned == pc = "done"

CleanupsOf(d) == {i \in 1..Len(cleaned) : cleaned[i].op = d}

\* C1: when a container status of the fetched build pod has an exit code other
\* than 0, CreateBuild is not called and build() returns an error; CreateBuild
\* is called only after the exit-code loop found every status to be 0.
C1_NoPublishAfterNonZeroExit ==
    /\ (Called("ExitCodes") /\ \E i \in 1..Len(pod.codes) : pod.codes[i] # 0)
          => (~Called("CreateBuild") /\ ~loc.published /\ Returned /\ ret = "err")
    /\ Called("CreateBuild")
          => /\ Called("ExitCodes") /\ Pos("ExitCodes") < Pos("CreateBuild")
             /\ \A i \in 1..Len(pod.codes) : pod.codes[i] = 0

C1_Witness ==
    Returned /\ Called("ExitCodes") /\ pod.codes = <<0, 7>> /\ ret = "err"

\* C2 as claimed: whatever step build() ends at, the tmp directory it created
\* does not exist when build() returns.
C2_TmpDirGone == Returned => loc.tmpDir \notin tmpDirs

\* C2 as amended: on every return after the tmp directory was created,
\* os.RemoveAll(tmpDir) has run exactly once, and the directory does not exist
\* unless that call failed; a build that returns before creating it leaves none.
C2_TmpDirRemovedUnlessRemoveFails ==
    Returned =>
        IF loc.tmpDir = 0 THEN run \notin tmpDirs /\ CleanupsOf("RemoveTmpDir") = {}
        ELSE /\ Cardinality(CleanupsOf("RemoveTmpDir")) = 1
             /\ \A i \in CleanupsOf("RemoveTmpDir") :
                   cleaned[i].err = "nil" <=> loc.tmpDir \notin tmpDirs

C2_Witness ==
    /\ Returned /\ ret = "err" /\ last = [op |-> "WaitForPodEnd", err |-> "Timeout"]
    /\ loc.tmpDir # 0 /\ loc.tmpDir \notin tmpDirs

\* C3 as claimed: a build that took the slug-builder branch leaves no secret
\* {app}-build-env when it returns, on success and on every failure, a failure
\* of createAppEnvConfigSecret included.
C3_EnvSecretGone ==
    (Returned /\ loc.podKind = "slug") => EnvSecretName(app) \notin secrets

\* C3 as amended: once createAppEnvConfigSecret has succeeded, Secrets.Delete
\* runs exactly once on every return and the secret does not exist unless that
\* call failed; when createAppEnvConfigSecret itself fails, no delete runs and
\* the secret exists on return exactly if it existed before the call.
C3_EnvSecretDeletedUnlessDeleteFails ==
    (Returned /\ loc.podKind = "slug") =>
        IF Succeeded("CreateSecret")
        THEN /\ Cardinality(CleanupsOf("DeleteSecret")) = 1
             /\ \A i \in CleanupsOf("DeleteSecret") :
                   cleaned[i].err = "nil" <=> EnvSecretName(app) \notin secrets
        ELSE /\ CleanupsOf("DeleteSecret") = {}
             /\ EnvSecretName(app) \in secrets <=> loc.secretBefore

C3_Witness ==
    /\ Returned /\ loc.podKind = "slug" /\ ret = "err"
    /\ last = [op |-> "ExitCodes", err |-> "BuilderFailed"]
    /\ EnvSecretName(app) \notin secrets

\* C4: when the app config holds DRYCC_DISABLE_CACHE, cacheKey is not in the
\* object store at the moment the build pod is created, whatever Stat and
\* Delete returned.
C4_CacheAbsentAtPodCreate ==
    (last = [op |-> "PodCreate", err |-> "nil"] /\ pod.phase = "Pending"
        /\ loc.disableCaching)
        => CacheKey(app) \notin DOMAIN storage

C4_Reached ==
    /\ last = [op |-> "PodCreate", err |-> "nil"] /\ loc.disableCaching
    /\ Called("Delete") /\ CacheKey(app) \notin DOMAIN storage

\* C5: a successful build whose stack name is "container" publishes the image
\* {app}:git-{shortSha}, or its registry-prefixed form, whether the registry is
\* on-cluster or off-cluster; a successful build of any other stack publishes
\* slugKey.
C5_PublishedImage ==
    (Returned /\ ret = "nil") =>
        IF loc.stackName = "container"
        THEN loc.image \in {h \o SlugName(app, short) : h \in RegistryHosts}
        ELSE loc.image = AbsoluteSlugObjectKey(app, short)

\* the part of C5 the code keeps: off-cluster container builds and other stacks
C5_Reached ==
    /\ Returned /\ ret = "nil" /\ loc.stackName = "container"
    /\ conf.RegistryLocation = "off-cluster"
    /\ loc.image = "quay.io/" \o SlugName(app, short)

\* the calls of build() from the upload to the exit-code check, each of which
\* ends build() when it fails
UploadToExitCodes ==
    {"PutContent", "NodeSelector", "RegistryDetails", "CreateSecret", "PodCreate",
     "WaitForPod", "LogStream", "CopyLogs", "WaitForPodEnd", "GetPod", "ExitCodes"}

\* C6: PutContent(tarKey) has succeeded before the build pod is created and
\* tarKey is not written again; the pod is created before the wait on the
\* watcher begins; the exit codes are read only after waitForPodEnd returned
\* without error; a step that fails is the last step made.
C6_StepOrder ==
    /\ Times("PutContent") <= 1
    /\ Called("PodCreate")
          => /\ Succeeded("PutContent") /\ Pos("PutContent") < Pos("PodCreate")
             /\ TarKey(app, short) \in DOMAIN storage
    /\ Called("WaitForPod")
          => Succeeded("PodCreate") /\ Pos("PodCreate") < Pos("WaitForPod")
    /\ Called("GetPod")
          => /\ Succeeded("WaitForPodEnd") /\ Pos("WaitForPodEnd") < Pos("GetPod")
             /\ pod.phase \in {"Succeeded", "Failed"}
    /\ (last.op \in UploadToExitCodes /\ last.err # "nil")
          => Returned /\ ret = "err" /\ trace[Len(trace)] = last.op

C6_Witness ==
    /\ Returned /\ Called("ExitCodes") /\ Called("PodCreate")
    /\ last = [op |-> "ExitCodes", err |-> "BuilderFailed"]

\* C7 as claimed: the log stream is opened only for a pod that has been in
\* phase Running.
C7_LogStreamAfterRunning ==
    last = [op |-> "LogStream", err |-> "nil"] => pod.ran

\* C7 as amended: the log stream is opened only after waitForPod has returned
\* without error, that is for a pod that is Running or has already ended
\* (Succeeded or Failed), never for a pod that is still Pending.
C7_LogStreamAfterWaitForPod ==
    Called("LogStream") =>
        /\ Succeeded("WaitForPod") /\ Pos("WaitForPod") < Pos("LogStream")
        /\ pod.phase \in StartedPhases

C7_Witness ==
    logStream = "open" /\ pod.phase = "Succeeded" /\ ~pod.ran

\* the quit handshake with the progress ticker, between hooks.CreateBuild and
\* the check of its error
QuitHandshake == {"quitSend", "quitRecv"}

\* C8: GetAppConfig and CreateBuild returning the API-mismatch sentinel go on
\* as a call that succeeded does (to cache handling, to the successful
\* return); any other error ends build() with an error at that call.
C8_MismatchTolerated ==
    /\ (last.op = "GetAppConfig" /\ last.err \in {"nil", "ErrAPIMismatch"})
          => pc = (IF loc.disableCaching THEN "statCache" ELSE "gitArchive") /\ ret = "none"
    /\ (last.op = "CreateBuild" /\ last.err \in {"nil", "ErrAPIMismatch"})
          => pc \in QuitHandshake \cup {"gitGc"} /\ ret = "none" /\ loc.published
    /\ last.op = "GitGc" => Returned /\ ret = "nil"
    /\ (last.op = "GetAppConfig" /\ last.err \notin {"nil", "ErrAPIMismatch"})
          => Returned /\ ret = "err" /\ trace[Len(trace)] = last.op
    /\ (last.op = "CreateBuild" /\ last.err \notin {"nil", "ErrAPIMismatch"})
          => /\ pc \in QuitHandshake \/ (Returned /\ ret = "err")
             /\ trace[Len(trace)] = last.op

C8_Witness ==
    last = [op |-> "CreateBuild", err |-> "ErrAPIMismatch"] /\ pc = "gitGc"

\* C9: CreateBuild is called at most once; build() returns nil exactly when
\* that call was made and accepted; a failing git gc or cleanup after an
\* accepted publish does not fail the build, and no failing build has
\* published.
C9_OneReleaseIffSuccess ==
    /\ Times("CreateBuild") <= 1
    /\ releases = (IF loc.published THEN 1 ELSE 0)
    /\ loc.published => Succeeded("CreateBuild") \/ last.err = "ErrAPIMismatch"
    /\ Returned => (ret = "nil" <=> loc.published)

C9_Witness ==
    /\ Returned /\ ret = "nil" /\ loc.published
    /\ last = [op |-> "GitGc", err |-> "GcFailed"]
    /\ \E i \in 1..Len(cleaned) : cleaned[i].err # "nil"

\* C10: a second build() of the same (app, sha) after a first one that
\* succeeded succeeds too, when nothing fails but what the state the first
\* one left makes fail.
C10_RebuildSucceeds ==
    (/\ Returned /\ run = 2
     /\ past[1] = [app |-> app, rawGitSha |-> req.rawGitSha, ret |-> "nil"]
     /\ last.err \in {"nil", "AlreadyExists"})
        => ret = "nil"

\* a second build of the same app succeeds when its pod name is new
C10_Reached ==
    /\ Returned /\ run = 2 /\ ret = "nil"
    /\ past[1].app = app /\ past[1].ret = "nil"

\* the calls of build() that act on the repository directory, the controller,
\* the object store or the build namespace
SideEffects ==
    {"TempDir", "NewClient", "GetAppConfig", "Stat", "Delete", "GitArchive", "Untar",
     "PutContent", "CreateSecret", "PodCreate"}

InvalidConfig ==
    ValidateErr # "nil" \/ NodeSelectorErr(conf.BuilderPodNodeSelector) # "nil"

\* C11: when the SHA is not a 40-hex id, a pull-policy string is not one of
\* Always, IfNotPresent, Never, or the node-selector string is malformed,
\* build() makes none of its side-effecting calls: no tmp directory, no
\* GetAppConfig, no Stat, Delete or PutContent, no git archive, no secret, no pod.
C11_InvalidConfigFailsFirst ==
    (pc # "idle" /\ InvalidConfig) =>
        /\ \A op \in SideEffects : ~Called(op)
        /\ tmpDirs = {} /\ pod = NoPod

\* the part of C11 the code keeps: a malformed SHA ends build() at validation
C11_Reached ==
    /\ Returned /\ ret = "err" /\ req.rawGitSha = "abc12345"
    /\ trace = <<"Validate">> /\ tmpDirs = {}

\* C12: with caching disabled, Stat reporting not-found goes on without
\* Delete; Stat reporting that the cache exists is followed by Delete, whose
\* failure ends build(); Stat failing with any other storage error ends
\* build() with an error.
C12_CacheInvalidation ==
    /\ last = [op |-> "Stat", err |-> "PathNotFound"] => pc = "gitArchive"
    /\ last = [op |-> "Stat", err |-> "nil"] => pc = "deleteCache"
    /\ (last.op = "Delete" /\ last.err # "nil")
          => Returned /\ ret = "err" /\ ~Called("PodCreate")
    /\ (last.op = "Stat" /\ last.err \notin {"nil", "PathNotFound"})
          => Returned /\ ret = "err" /\ ~Called("PodCreate")

\* the part of C12 the code keeps: a failing Delete ends build() before the pod
C12_Reached ==
    /\ last = [op |-> "Delete", err |-> "StorageUnavailable"]
    /\ Returned /\ ret = "err" /\ ~Called("PodCreate")
    /\ CacheKey(app) \in DOMAIN storage

\* C13: an error while copying the pod's log stream does not end build(): it
\* goes on to waitForPodEnd and the exit codes decide the outcome.
C13_CopyErrorNotFatal ==
    (last.op = "CopyLogs" /\ last.err # "nil") => (pc = "waitForPodEnd" /\ ret = "none")

\* a pod that exited 0 behind a broken log stream: build() has ended
C13_Reached ==
    /\ last = [op |-> "CopyLogs", err |-> "CopyError"]
    /\ pod.phase = "Succeeded" /\ pod.codes = <<0>>
    /\ Returned /\ ret = "err" /\ ~loc.published

\* the deferred calls of build(), the last one registered first, each with the
\* call after whose success it is registered
Deferred ==
    <<[after |-> "LogStream", d |-> "CloseLogStream"],
      [after |-> "PodCreate", d |-> "CloseStopCh"],
      [after |-> "CreateSecret", d |-> "DeleteSecret"],
      [after |-> "TempDir", d |-> "RemoveTmpDir"]>>

\* the deferred calls a return has to run, in the order it has to run them
DueCleanups == SelectSeq(Deferred, LAMBDA r : Succeeded(r.after))

\* C14: when build() returns, with nil or with an error, every deferred call
\* registered so far has run exactly once, the last registered first; a
\* cleanup that failed has not kept the others from running and has not
\* changed the value returned. Nothing is cleaned up before the return.
C14_CleanupsRunOnceInReverse ==
    /\ ~Returned => cleaned = <<>>
    /\ Returned =>
          /\ Len(cleaned) = Len(DueCleanups)
          /\ \A i \in 1..Len(cleaned) : cleaned[i].op = DueCleanups[i].d
          /\ ret = (IF last.op = "GitGc" THEN "nil" ELSE "err")
          /\ Succeeded("PodCreate") => watcher \in {"stopping", "stopped"}
          /\ Succeeded("LogStream") => logStream = "closed"

C14_Witness ==
    /\ Returned /\ ret = "nil"
    /\ cleaned = <<[op |-> "CloseLogStream", err |-> "nil"],
                   [op |-> "CloseStopCh", err |-> "nil"],
                   [op |-> "DeleteSecret", err |-> "CleanupError"],
                   [op |-> "RemoveTmpDir", err |-> "nil"]>>
    /\ loc.tmpDir \notin tmpDirs

\* C15: right after Procfile resolution: a Procfile in the tmp directory alone
\* decides (its mapping, or an error when it is malformed or unreadable) and
\* the object store is not read; without one, stack "container" gives the
\* empty mapping without reading the object store; otherwise procfileKey is
\* read and a missing or malformed object is an error. A resolution that
\* fails ends build(), and CreateBuild is called only after one that succeeded.
C15_ProcfileResolution ==
    /\ last.op = "GetProcFile" =>
          /\ loc.procOnDisk # "absent" =>
                /\ loc.procRead = "disk"
                /\ loc.procOnDisk = "bad" => last.err # "nil"
                /\ last.err = "nil" => loc.procType = "disk"
          /\ (loc.procOnDisk = "absent" /\ loc.stackName = "container") =>
                loc.procRead = "none" /\ last.err = "nil" /\ loc.procType = "empty"
          /\ (loc.procOnDisk = "absent" /\ loc.stackName # "container") =>
                /\ loc.procRead = "storage"
                /\ ProcfileObject \in {"missing", "bad"} => last.err # "nil"
                /\ last.err = "nil" => loc.procType = "storage" /\ ProcfileObject = "good"
          /\ last.err # "nil" => Returned /\ ret = "err" /\ loc.procType = "none"
          /\ last.err = "nil" => pc = "createBuild"
    /\ Called("CreateBuild") =>
          Succeeded("GetProcFile") /\ Pos("GetProcFile") < Pos("CreateBuild")

C15_Witness ==
    /\ last = [op |-> "GetProcFile", err |-> "ProcfileInvalid"]
    /\ loc.procOnDisk = "absent" /\ loc.stackName = "heroku-18"
    /\ ProcfileObject = "bad" /\ Returned /\ ~Called("CreateBuild")

\* C16: once the watcher's worker runs, every return of build() closes the
\* stop channel, exactly once, so the worker is never left running unsignalled
\* by a build() that has returned, and it eventually stops.
C16_WatcherStopped ==
    /\ [](watcher = "running" => ~Returned)
    /\ [](Succeeded("PodCreate") <=> watcher # "none")
    /\ []((Returned /\ Succeeded("PodCreate"))
            => Cardinality(CleanupsOf("CloseStopCh")) = 1)
    /\ (watcher = "running" ~> watcher = "stopped")

C16_Witness ==
    /\ watcher = "stopped" /\ Returned /\ ret = "err"
    /\ last = [op |-> "WaitForPod", err |-> "Timeout"]

\* C17: whatever hooks.CreateBuild returned, the ticker that progress started
\* has been told to quit and has acknowledged before build() returns: the send
\* and the receive on the quit channel both complete, and no ticker is ticking
\* or quitting once build() has returned.
C17_TickerDrained ==
    /\ [](Returned => ticker \in {"none", "done"})
    /\ [](Called("CreateBuild") <=> ticker # "none")
    /\ (pc = "quitSend" ~> pc \in {"gitGc", "done"})

C17_Witness ==
    /\ Returned /\ ret = "err" /\ ticker = "done"
    /\ last = [op |-> "CreateBuild", err |-> "ControllerError"]

\* this build waits for a slug builder pod that has not ended
OwnPodLive ==
    /\ pc \in {"waitForPod", "logStream", "copyLogs", "waitForPodEnd"}
    /\ loc.podKind = "slug" /\ pod.phase \in {"Pending", "Running"}

\* the other build waits for its pod, which has not ended
PeerPodLive == peer.at = "pod"

\* both builds have created their env secret and neither has returned
BothHoldSecret ==
    /\ Succeeded("CreateSecret") /\ ~Returned
    /\ peer.at \in {"secret", "pod", "ended"}

\* C18 as claimed: for two concurrent slug builds of distinct (app, shortSha),
\* the same app with two SHAs included, the two use different secrets, and
\* the secret of a build whose pod has not ended is not deleted by the other.
C18_EnvSecretNotShared ==
    (pc # "idle" /\ <<app, short>> # <<peer.app, Short(OldSha)>>) =>
        /\ BothHoldSecret => EnvSecretName(app) # EnvSecretName(peer.app)
        /\ OwnPodLive => EnvSecretName(app) \in secrets
        /\ PeerPodLive => EnvSecretName(peer.app) \in secrets

\* C18 as amended: the same, for two concurrent slug builds of distinct apps.
C18_EnvSecretPerApp ==
    (pc # "idle" /\ app # peer.app) =>
        /\ BothHoldSecret => EnvSecretName(app) # EnvSecretName(peer.app)
        /\ OwnPodLive => EnvSecretName(app) \in secrets
        /\ PeerPodLive => EnvSecretName(peer.app) \in secrets

C18_Witness ==
    /\ peer = [app |-> "bar", at |-> "pod"] /\ EnvSecretName("bar") \in secrets
    /\ Returned /\ loc.podKind = "slug" /\ CleanupsOf("DeleteSecret") # {}
    /\ EnvSecretName(app) \notin secrets

\* the image references build() computes in the docker-builder branch
ContainerImages ==
    {app} \cup {getRegistryDetails(app, h) \o ":git-" \o short : h \in RegistryHosts}

\* C19: the builder-kind decision is the same at every point of one build,
\* for every stack name: after the docker builder pod, Procfile resolution
\* treats the stack as container (no Procfile on disk gives the empty mapping)
\* and CreateBuild gets isContainer = true and the container image; after the
\* slug builder pod, CreateBuild gets isContainer = false and slugKey.
C19_BuilderKindConsistent ==
    /\ (last.op = "GetProcFile" /\ loc.podKind = "docker" /\ loc.procOnDisk = "absent")
          => last.err = "nil" /\ loc.procType = "empty" /\ loc.procRead = "none"
    /\ (Called("CreateBuild") /\ loc.podKind = "docker")
          => loc.isContainer /\ loc.image \in ContainerImages
    /\ (Called("CreateBuild") /\ loc.podKind = "slug")
          => ~loc.isContainer /\ loc.image = AbsoluteSlugObjectKey(app, short)

\* the part of C19 the code keeps: the stack names "container" and "heroku-18"
C19_Reached ==
    /\ Returned /\ ret = "nil" /\ loc.stackName = "container"
    /\ loc.podKind = "docker" /\ loc.isContainer /\ loc.procType = "empty"
    /\ loc.image \in ContainerImages

\* C20: a release is published only for a build pod that ended Succeeded; when
\* the pod ended Failed, with whatever container statuses, an empty list
\* included, build() returns an error and CreateBuild is not called.
C20_PublishOnlyIfPodSucceeded ==
    /\ Called("CreateBuild") => pod.phase = "Succeeded"
    /\ (Called("ExitCodes") /\ pod.phase = "Failed")
          => Returned /\ ret = "err" /\ last.err = "BuilderFailed" /\ ~loc.published

\* the part of C20 the code keeps: a Failed pod with a non-zero exit code
C20_Reached ==
    /\ Called("ExitCodes") /\ pod.phase = "Failed" /\ pod.codes = <<7>>
    /\ Returned /\ ret = "err" /\ ~Called("CreateBuild")

====
